---- MODULE Spec2Model ----
(***************************************************************************)
(* Client-side session lifecycle of AI-TUTOR-PRO: the AuthProvider of      *)
(* src/context/AuthContext.tsx (initialize effect, login, logout,          *)
(* getAuthHeader) over the browser's localStorage, and the Login page's    *)
(* submit handler that calls login; the router's ProtectedRoute; and the   *)
(* problem-input screens: the OCR + solve page (src/pages/Index.tsx), the  *)
(* tutor (src/components/TutorComponent.tsx: upload, solve, explain a      *)
(* step) and the chat page, each with its requests in flight.              *)
(*                                                                         *)
(* Encoding of JavaScript values.  A string-typed value that may be null   *)
(* (a localStorage entry, the in-memory token, a field of the login        *)
(* response) is a TLA+ string, with Absent standing for null/undefined.    *)
(* An object-typed value that may be null (the in-memory user, the user    *)
(* field of the login response) is a record, with Null standing for null.  *)
(* Truthy(s) is JavaScript truthiness of a string-typed value: null,       *)
(* undefined and the empty string are falsy.                               *)
(*                                                                         *)
(* Every handler runs to completion on the single-threaded event loop, so  *)
(* one action is one handler run up to its next await; the state updates   *)
(* of one run are committed together (React batches them).                 *)
(***************************************************************************)
EXTENDS Integers, FiniteSets, Sequences, Bags, TLC

\* ---------------------------------------------------------------- bounds
\* Number of login() calls made in one behaviour.
MaxLogins == 2
\* Number of requests one page has in flight at a time.
MaxRequests == 2
\* Number of FileReaders one page has at work on one file at a time.
MaxReads == 1
\* Number of messages the chat page lists.
MaxMessages == 2

\* ------------------------------------------------------------ JS values
Absent == "<absent>"
Null == [null |-> TRUE]

Truthy(s) == s # Absent /\ s # ""

\* The User objects the model works with ({name, email}).
Ann == [name |-> "Ann", email |-> "ann@x"]
Bob == [name |-> "Bob", email |-> "bob@x"]
\* An object carrying one more field than User declares.
AnnId == [name |-> "Ann", email |-> "ann@x", id |-> 7]
BobId == [name |-> "Bob", email |-> "bob@x", id |-> 8]

\* JSON texts.
JsonAnn == "{\"name\":\"Ann\",\"email\":\"ann@x\"}"
JsonBob == "{\"name\":\"Bob\",\"email\":\"bob@x\"}"
JsonAnnId == "{\"name\":\"Ann\",\"email\":\"ann@x\",\"id\":7}"
JsonBobId == "{\"name\":\"Bob\",\"email\":\"bob@x\",\"id\":8}"
JsonNull == "null"
JsonBad == "{oops"

\* JSON.parse: ok = FALSE when it throws a SyntaxError.
JSON_parse(s) ==
  CASE s = JsonAnn -> [ok |-> TRUE, val |-> Ann]
    [] s = JsonBob -> [ok |-> TRUE, val |-> Bob]
    [] s = JsonAnnId -> [ok |-> TRUE, val |-> AnnId]
    [] s = JsonBobId -> [ok |-> TRUE, val |-> BobId]
    [] s = JsonNull -> [ok |-> TRUE, val |-> Null]
    [] OTHER -> [ok |-> FALSE, val |-> Null]

\* JSON.stringify of an object or null.
JSON_stringify(v) ==
  CASE v = Ann -> JsonAnn
    [] v = Bob -> JsonBob
    [] v = AnnId -> JsonAnnId
    [] v = BobId -> JsonBobId
    [] OTHER -> JsonNull

\* ------------------------------------------------------- input domains
\* What localStorage may hold when the page loads.
StoredUsers == {Absent, "", JsonBad, JsonNull, JsonAnn, JsonAnnId}
StoredTokens == {Absent, "", "t1"}
StoredFlags == {Absent, "true", "false"}
StoredNames == {Absent, "Ann"}
StoredEmails == {Absent, "ann@x"}
Routes == {"/", "/login"}
\* Routes declared under <Route element={<ProtectedRoute />}>.
ProtectedRoutes == {"/ocr", "/tutor", "/chat"}
AppRoutes == Routes \cup ProtectedRoutes

LoginIds == 1..MaxLogins

\* What the fetch of /api/login can produce.  kind "network": fetch rejects;
\* kind "badjson": response.json() rejects; kind "body": data is an object.
StatusOk == 200
StatusUnauthorized == 401
NoResp == [kind |-> "none"]
Bodies ==
  [kind : {"body"}, status : {StatusOk, StatusUnauthorized},
   access_token : {Absent, "", "t1", "t2"},
   user : {Null, BobId},
   detail : {Absent, "Incorrect email or password"},
   error : {Absent, "server error"}]

\* A TokenResponse ({access_token, token_type, user}) with status 200.
IsTokenResponse(r) ==
  /\ r.kind = "body"
  /\ r.status = StatusOk
  /\ Truthy(r.access_token)
  /\ r.user # Null

\* The server puts detail / error in its error bodies only.
Responses ==
  {[kind |-> "network"]} \cup
  [kind : {"badjson"}, status : {StatusOk, StatusUnauthorized}] \cup
  {r \in Bodies :
     IsTokenResponse(r) => r.detail = Absent /\ r.error = Absent}

\* localStorage.setItem may throw (quota exceeded, storage disabled):
\* 0 = no setItem of the call throws, k = the k-th setItem of the call throws.
\* Only a call that reaches its setItem lines can meet such a failure.
SetItemFailures(r) == IF IsTokenResponse(r) THEN 0..3 ELSE {0}

\* ---------------------------------------------------------------- state
VARIABLES
  ls,          \* localStorage: the keys the session manager touches
  user,        \* useState<User | null>
  isLoggedIn,  \* useState<boolean>
  isLoading,   \* useState<boolean>
  token,       \* useState<string | null>
  initialized, \* the mount effect of AuthProvider has run
  promise,     \* state of the promise returned by each login() call
  fetches,     \* number of fetch() invocations made so far
  location,    \* router location (navigate target)
  from,        \* router location.state?.from?.pathname
  error,       \* Login page: useState<string | null> error
  index,       \* Index page: its useState values, its fetches in flight
               \* and its FileReaders at work
  tutor,       \* TutorComponent: the same
  chat,        \* ChatPage: the same
  lastCall     \* the most recent handler run: its name, the login call it
               \* belongs to, the response it consumed, the error it threw,
               \* the header set it returned and (for the mount effect)
               \* the localStorage contents it found

vars == <<ls, user, isLoggedIn, isLoading, token, initialized, promise,
          fetches, location, from, error, index, tutor, chat, lastCall>>

pageVars == <<index, tutor, chat>>

\* What a handler that returns no header set "returned".
NoHeader == {<<"<no header>", <<"", "">>>>}

\* What a handler that did not start from a page load "found".
NoStore == [none |-> TRUE]

Call(op, id, resp, thrown) ==
  [op |-> op, id |-> id, resp |-> resp, thrown |-> thrown,
   returned |-> NoHeader, found |-> NoStore]

Returned(h) ==
  [Call("getAuthHeader", 0, NoResp, Absent) EXCEPT !.returned = h]

Found(store) ==
  [Call("initialize", 0, NoResp, Absent) EXCEPT !.found = store]

\* ------------------------------------------------------------- helpers
\* The session as one value, so that each handler's effect is a function.
Session(store, u, t, l) ==
  [ls |-> store, user |-> u, token |-> t, isLoggedIn |-> l]

Current == Session(ls, user, token, isLoggedIn)

\* Variant: ProtectedRoute tests isLoggedIn before isLoading.
ProtectedRoute_LoginFirst(loading, loggedIn) ==
  IF ~loggedIn THEN "Navigate"
  ELSE IF loading THEN "spinner"
  ELSE "Outlet"

\* ProtectedRoute: the element it returns for the context's values.
ProtectedRoute(loading, loggedIn) ==
  IF loading THEN "spinner"
  ELSE IF ~loggedIn THEN "Navigate"
  ELSE "Outlet"

\* Login page: redirectTarget, taken from location.state?.from?.pathname
\* and "/" when there is none.
DefaultRedirect == "/"

RedirectTarget(fr) == IF Truthy(fr) THEN fr ELSE DefaultRedirect

\* location.state?.from?.pathname for the state a navigation carries: its
\* from is a location object (ProtectedRoute) or a route string (Home page),
\* and a string has no pathname.
FromPathname(state) ==
  IF state = Null THEN Absent
  ELSE IF state.from.kind = "location" THEN state.from.pathname
  ELSE Absent

\* Login page: "Redirect if user is already logged in" effect, run by the
\* render that follows a state change.
LoginPageEffect(loc, fr, loggedIn) ==
  IF loc = "/login" /\ loggedIn
    THEN [location |-> RedirectTarget(fr), from |-> Absent]
    ELSE [location |-> loc, from |-> fr]

\* The router after a render at loc: the element of a protected route is
\* what ProtectedRoute returns, and its <Navigate to="/login"
\* state={{ from: location }} replace /> moves the location.
Routed(loc, fr, loading, loggedIn) ==
  IF loc \in ProtectedRoutes /\ ProtectedRoute(loading, loggedIn) = "Navigate"
    THEN LoginPageEffect("/login",
                         FromPathname([from |-> [kind |-> "location",
                                                 pathname |-> loc]]),
                         loggedIn)
    ELSE LoginPageEffect(loc, fr, loggedIn)

\* The location after a handler run that ends at loc with state fr.
NavigateTo(loc, fr) ==
  LET r == Routed(loc, fr, isLoading', isLoggedIn')
  IN location' = r.location /\ from' = r.from

\* -------------------------------------------------------- initialize
\* Variant: the catch branch forgets to remove the isLoggedIn key.
InitializeEffect_KeepsFlag(s) ==
  LET storedUser == s.ls.user
      storedToken == s.ls.token
      storedIsLoggedIn == (s.ls.isLoggedIn = "true")
      parsed == JSON_parse(storedUser)
  IN IF storedIsLoggedIn /\ Truthy(storedUser) /\ Truthy(storedToken)
       THEN IF parsed.ok
              THEN Session(s.ls, parsed.val, storedToken, TRUE)
              ELSE Session([s.ls EXCEPT !.user = Absent, !.token = Absent],
                           Null, Absent, FALSE)
       ELSE s

\* Variant: the try branch forgets setToken(storedToken).
InitializeEffect_DropsToken(s) ==
  LET storedUser == s.ls.user
      storedToken == s.ls.token
      storedIsLoggedIn == (s.ls.isLoggedIn = "true")
      parsed == JSON_parse(storedUser)
  IN IF storedIsLoggedIn /\ Truthy(storedUser) /\ Truthy(storedToken)
       THEN IF parsed.ok
              THEN Session(s.ls, parsed.val, s.token, TRUE)
              ELSE Session([s.ls EXCEPT !.user = Absent, !.token = Absent,
                                        !.isLoggedIn = Absent],
                           Null, Absent, FALSE)
       ELSE s

\* The mount effect of AuthProvider ("Check auth status on initial load").
InitializeEffect(s) ==
  LET storedUser == s.ls.user
      storedToken == s.ls.token
      storedIsLoggedIn == (s.ls.isLoggedIn = "true")
      parsed == JSON_parse(storedUser)
  IN IF storedIsLoggedIn /\ Truthy(storedUser) /\ Truthy(storedToken)
       THEN IF parsed.ok
              THEN Session(s.ls, parsed.val, storedToken, TRUE)
              ELSE Session([s.ls EXCEPT !.user = Absent, !.token = Absent,
                                        !.isLoggedIn = Absent],
                           Null, Absent, FALSE)
       ELSE s

Initialize ==
  /\ ~initialized
  /\ LET s == InitializeEffect(Current)
     IN /\ ls' = s.ls
        /\ user' = s.user
        /\ token' = s.token
        /\ isLoggedIn' = s.isLoggedIn
  /\ isLoading' = FALSE
  /\ initialized' = TRUE
  /\ lastCall' = Found(ls)
  /\ NavigateTo(location, from)
  /\ UNCHANGED <<promise, fetches, error>>
  /\ UNCHANGED pageVars

\* ------------------------------------------------------------- logout
\* Variant: logout clears the in-memory token but leaves the stored one.
LogoutEffect_KeepsStoredToken(s) ==
  Session([s.ls EXCEPT !.user = Absent,
                       !.isLoggedIn = Absent, !.userName = Absent,
                       !.userEmail = Absent],
          Null, Absent, FALSE)

\* Variant: logout forgets setUser(null).
LogoutEffect_KeepsUser(s) ==
  Session([s.ls EXCEPT !.user = Absent, !.token = Absent,
                       !.isLoggedIn = Absent, !.userName = Absent,
                       !.userEmail = Absent],
          s.user, Absent, FALSE)

LogoutEffect(s) ==
  Session([s.ls EXCEPT !.user = Absent, !.token = Absent,
                       !.isLoggedIn = Absent, !.userName = Absent,
                       !.userEmail = Absent],
          Null, Absent, FALSE)

logout ==
  /\ initialized
  /\ LET s == LogoutEffect(Current)
     IN /\ ls' = s.ls
        /\ user' = s.user
        /\ token' = s.token
        /\ isLoggedIn' = s.isLoggedIn
  /\ lastCall' = Call("logout", 0, NoResp, Absent)
  /\ UNCHANGED <<isLoading, initialized, promise, fetches, error>>
  /\ NavigateTo("/login", Absent)
  /\ UNCHANGED pageVars

\* ------------------------------------------------------ getAuthHeader
\* A header set is a set of <<name, value>> pairs; the value of the
\* template literal `Bearer ${t}` is the pair <<"Bearer ", t>>.
Bearer(t) == {<<"Authorization", <<"Bearer ", t>>>>}

\* Variant: the header is built from the token held in React state.
getAuthHeader_FromState ==
  LET currentToken == token
  IN IF Truthy(currentToken) THEN Bearer(currentToken) ELSE {}

getAuthHeader ==
  LET currentToken == ls.token
  IN IF Truthy(currentToken) THEN Bearer(currentToken) ELSE {}

getAuthHeaderCall ==
  /\ lastCall' = Returned(getAuthHeader)
  /\ UNCHANGED <<ls, user, isLoggedIn, isLoading, token, initialized,
                 promise, fetches, location, from, error>>
  /\ UNCHANGED pageVars

\* -------------------------------------------------------------- login
\* `Login failed (status ${response.status})`
LoginFailedStatus(status) ==
  CASE status = StatusOk -> "Login failed (status 200)"
    [] status = StatusUnauthorized -> "Login failed (status 401)"

\* data.detail || data.error || `Login failed (status ...)`
ErrorMsg(r) ==
  IF Truthy(r.detail) THEN r.detail
  ELSE IF Truthy(r.error) THEN r.error
  ELSE LoginFailedStatus(r.status)

ResponseOk(r) == r.status >= 200 /\ r.status <= 299

\* Variant: a successful login forgets to persist the isLoggedIn key.
LoginTry_SkipsFlag(s, r, f) ==
  IF r.kind = "network" THEN [s |-> s, thrown |-> "Failed to fetch"]
  ELSE IF r.kind = "badjson" THEN [s |-> s, thrown |-> "Unexpected token"]
  ELSE IF ~ResponseOk(r) \/ ~Truthy(r.access_token) \/ r.user = Null
    THEN [s |-> s, thrown |-> ErrorMsg(r)]
  ELSE
    LET userData == [name |-> r.user.name, email |-> r.user.email]
        ls1 == [s.ls EXCEPT !.user = JSON_stringify(userData)]
        ls2 == [ls1 EXCEPT !.token = r.access_token]
    IN CASE f = 1 -> [s |-> s, thrown |-> "QuotaExceededError"]
         [] f = 2 -> [s |-> [s EXCEPT !.ls = ls1],
                      thrown |-> "QuotaExceededError"]
         [] OTHER -> [s |-> Session(ls2, userData, r.access_token, TRUE),
                      thrown |-> Absent]

\* The try block of login, from the settled fetch on.  r is what the fetch
\* produced and f says which setItem (if any) throws.  The result is the
\* session the block leaves behind and the error it threw (Absent: none).
LoginTry(s, r, f) ==
  IF r.kind = "network" THEN [s |-> s, thrown |-> "Failed to fetch"]
  ELSE IF r.kind = "badjson" THEN [s |-> s, thrown |-> "Unexpected token"]
  ELSE IF ~ResponseOk(r) \/ ~Truthy(r.access_token) \/ r.user = Null
    THEN [s |-> s, thrown |-> ErrorMsg(r)]
  ELSE
    LET userData == [name |-> r.user.name, email |-> r.user.email]
        ls1 == [s.ls EXCEPT !.user = JSON_stringify(userData)]
        ls2 == [ls1 EXCEPT !.token = r.access_token]
        ls3 == [ls2 EXCEPT !.isLoggedIn = "true"]
    IN CASE f = 1 -> [s |-> s, thrown |-> "QuotaExceededError"]
         [] f = 2 -> [s |-> [s EXCEPT !.ls = ls1],
                      thrown |-> "QuotaExceededError"]
         [] f = 3 -> [s |-> [s EXCEPT !.ls = ls2],
                      thrown |-> "QuotaExceededError"]
         [] OTHER -> [s |-> Session(ls3, userData, r.access_token, TRUE),
                      thrown |-> Absent]

\* Variant: the catch block forgets to remove the persisted token.
LoginCatch_KeepsToken(s) ==
  Session([s.ls EXCEPT !.user = Absent, !.isLoggedIn = Absent],
          Null, Absent, FALSE)

\* The catch block of login.
LoginCatch(s) ==
  Session([s.ls EXCEPT !.user = Absent, !.token = Absent,
                       !.isLoggedIn = Absent],
          Null, Absent, FALSE)

\* try / catch together: the session after the call and what it threw.
LoginOutcome(s, r, f) ==
  LET t == LoginTry(s, r, f)
  IN IF t.thrown = Absent THEN t
     ELSE [s |-> LoginCatch(t.s), thrown |-> t.thrown]

\* Variant: login forgets setIsLoading(true).
LoginBegin_NoLoading(id) ==
  /\ initialized
  /\ id = fetches + 1
  /\ id \in LoginIds
  /\ fetches' = fetches + 1
  /\ promise' = [promise EXCEPT ![id] = "pending"]
  /\ lastCall' = Call("login", id, NoResp, Absent)
  /\ UNCHANGED <<ls, user, isLoggedIn, isLoading, token, initialized>>

\* login() up to its await: setIsLoading(true) and the fetch is issued.
LoginBegin(id) ==
  /\ initialized
  /\ id = fetches + 1
  /\ id \in LoginIds
  /\ isLoading' = TRUE
  /\ fetches' = fetches + 1
  /\ promise' = [promise EXCEPT ![id] = "pending"]
  /\ lastCall' = Call("login", id, NoResp, Absent)
  /\ UNCHANGED <<ls, user, isLoggedIn, token, initialized>>

\* login() from its await on: try, catch, finally; the promise settles.
LoginSettle(id, r, f) ==
  /\ promise[id] = "pending"
  /\ LET o == LoginOutcome(Current, r, f)
     IN /\ ls' = o.s.ls
        /\ user' = o.s.user
        /\ token' = o.s.token
        /\ isLoggedIn' = o.s.isLoggedIn
        /\ promise' = [promise EXCEPT ![id] =
                         IF o.thrown = Absent THEN "fulfilled" ELSE "rejected"]
        /\ lastCall' = Call("loginSettled", id, r, o.thrown)
  /\ isLoading' = FALSE
  /\ UNCHANGED <<initialized, fetches>>

\* login called by any consumer of the context, at any time after mount.
login ==
  /\ \E id \in LoginIds : LoginBegin(id)
  /\ UNCHANGED <<location, from, error>>
  /\ UNCHANGED pageVars

loginSettled ==
  \E id \in LoginIds, r \in Responses : \E f \in SetItemFailures(r) :
    /\ LoginSettle(id, r, f)
    /\ NavigateTo(location, from)
    /\ UNCHANGED error
    /\ UNCHANGED pageVars

\* ---------------------------------------------------------- Login page
\* What the user may have typed into a field of the form.
FormValues == {"", "typed"}

\* The form is rendered on /login; its inputs and its submit button are
\* disabled while the context's isLoading is true.
SubmitEnabled == location = "/login" /\ ~isLoading

\* handleSubmit up to its await.
handleSubmit ==
  /\ initialized
  /\ SubmitEnabled
  /\ UNCHANGED pageVars
  /\ \E email \in FormValues, password \in FormValues :
       IF email = "" \/ password = ""
         THEN /\ error' = "Both email and password are required."
              /\ lastCall' = Call("handleSubmit", 0, NoResp, Absent)
              /\ UNCHANGED <<ls, user, isLoggedIn, isLoading, token,
                             initialized, promise, fetches, location,
                             from>>
         ELSE /\ error' = Absent
              /\ \E id \in LoginIds : LoginBegin(id)
              /\ UNCHANGED <<location, from>>

\* handleSubmit from its await on: login settles, then the handler
\* navigates to the redirect target or records the error.
handleSubmitSettled ==
  \E id \in LoginIds, r \in Responses : \E f \in SetItemFailures(r) :
    /\ LoginSettle(id, r, f)
    /\ IF promise'[id] = "fulfilled"
         THEN /\ NavigateTo(RedirectTarget(from), Absent)
              /\ UNCHANGED error
         ELSE /\ error' = lastCall'.thrown
              /\ NavigateTo(location, from)
    /\ UNCHANGED pageVars

\* ============================================================ problem input
\* Values shared by the screens that take a problem from a file or a text.

\* A File is {type, size}; Null is "no file".
MaxFileSize == 10 * 1024 * 1024
Files ==
  {[type |-> "image/png", size |-> MaxFileSize],
   [type |-> "application/pdf", size |-> MaxFileSize],
   [type |-> "image/webp", size |-> MaxFileSize],
   [type |-> "image/png", size |-> MaxFileSize + 1]}

\* allowedTypes of onFileChange.
allowedTypes == {"image/jpeg", "image/png", "application/pdf"}

\* Texts a user types or the OCR service extracts.
Texts == {"", " ", " x "}

\* Variant: trim returns its argument.
trim_Identity(s) == s

\* String.prototype.trim on the texts of the model.
trim(s) ==
  CASE s = " " -> ""
    [] s = " x " -> "x"
    [] OTHER -> s

\* reader.result of readAsDataURL(file).
DataUrl(file) == [dataUrl |-> file]

StatusBadRequest == 400
StatusServerError == 500

\* `HTTP error! status: ${response.status}`
HttpErrorStatus(status) ==
  CASE status = StatusOk -> "HTTP error! status: 200"
    [] status = StatusBadRequest -> "HTTP error! status: 400"
    [] status = StatusServerError -> "HTTP error! status: 500"

\* JSON.stringify of a detail that is a string.
JSON_stringifyDetail(d) ==
  CASE d = "detail text" -> "\"detail text\""
    [] OTHER -> "\"\""

\* error.message || fallback
MessageOr(m, fallback) == IF Truthy(m) THEN m ELSE fallback

\* `${prefix}${message}`, and null as Null.
Prefixed(prefix, m) == [prefix |-> prefix, message |-> m]

\* What the fetch of /upload-image can produce.  The service answers 200
\* with {status, extracted_text} or {error}, and an error status with
\* {detail} and/or {error}.
OcrBodies ==
  [kind : {"body"}, status : {StatusOk, StatusBadRequest},
   bstatus : {Absent, "success"},
   extracted_text : {Absent, "", " x "},
   detail : {Absent, "detail text"},
   error : {Absent, "error text"}]

OcrResponses ==
  {[kind |-> "network"]} \cup
  [kind : {"badjson"}, status : {StatusOk, StatusBadRequest}] \cup
  {r \in OcrBodies :
     /\ r.status = StatusOk => r.detail = Absent
     /\ r.status # StatusOk =>
          r.bstatus = Absent /\ r.extracted_text = Absent
     /\ r.bstatus = "success" <=> r.error = Absent
     /\ r.bstatus = Absent => r.extracted_text = Absent}

\* What the fetch of /solve-text can produce for the request q: a
\* SolveResult (its answer, and as original_problem the question of q), an
\* {error} body, or an error status with {detail} and/or {error}.
SolveBodies(q) ==
  [kind : {"body"}, status : {StatusOk, StatusServerError},
   original_problem : {Absent, q.body.question_text},
   answer : {Absent, "A", "B"},
   detail : {Absent, "detail text"},
   error : {Absent, "error text"}]

SolveResponses(q) ==
  {[kind |-> "network"]} \cup
  [kind : {"badjson"}, status : {StatusOk, StatusServerError}] \cup
  {r \in SolveBodies(q) :
     /\ r.status = StatusOk => r.detail = Absent
     /\ r.status # StatusOk => r.answer = Absent
     /\ (r.status = StatusOk /\ r.error = Absent) => r.answer # Absent
     /\ r.error # Absent => r.answer = Absent
     /\ r.answer # Absent <=> r.original_problem # Absent}

\* A fetch in flight.  The fetches a page has in flight are a bag: two
\* fetches of the same content are told apart only by their number.
Request(url, headers, body) ==
  [url |-> url, headers |-> headers, body |-> body]

NoRequests == EmptyBag

Fetch(requests, q) == requests (+) SetToBag({q})

Settle(requests, q) == requests (-) SetToBag({q})

InFlight(requests, url) == {q \in BagToSet(requests) : q.url = url}

\* How many fetches of url are in flight.
Pending(requests, url) ==
  BagCardinality([q \in InFlight(requests, url) |-> requests[q]])

CanFetch(requests) == BagCardinality(requests) < MaxRequests

\* The FileReaders at work: how many of them read each file.
NoReaders == [f \in Files |-> 0]

StartReader(readers, file) == [readers EXCEPT ![file] = @ + 1]

CanRead(readers) == \A f \in Files : readers[f] <= MaxReads

Reading(readers) == {f \in Files : readers[f] > 0}

\* The trace of a handler run of a page: the file its event carried (for a
\* reset, what it found; for an explanation, its step), the toast it showed
\* (its title) and the response it consumed.
NoToast == "<no toast>"
NoRequest == [none |-> TRUE]

Did(op, arg, toast, resp) ==
  [op |-> op, arg |-> arg, toast |-> toast, resp |-> resp]

\* The session of a user who logged in as Ann, after the mount effect.
LoggedIn ==
  /\ ls = [user |-> JsonAnn, token |-> "t1", isLoggedIn |-> "true",
           userName |-> Absent, userEmail |-> Absent]
  /\ user = Ann
  /\ isLoggedIn = TRUE
  /\ isLoading = FALSE
  /\ token = "t1"
  /\ initialized = TRUE
  /\ promise = [i \in LoginIds |-> "idle"]
  /\ fetches = 0
  /\ from = Absent
  /\ error = Absent
  /\ lastCall = Call("create", 0, NoResp, Absent)

sessionVars == <<ls, user, isLoggedIn, isLoading, token, initialized,
                 promise, fetches, location, from, error>>

\* ============================================================= Index page
\* src/pages/Index.tsx: the OCR + solve page at /ocr.

\* Try block of extractQuestion from the settled fetch on: the text it sets
\* (Absent: none) and the message of the error it throws (Absent: none).
ExtractTry(r) ==
  IF r.kind = "network" THEN [text |-> Absent, thrown |-> "Failed to fetch"]
  ELSE IF r.kind = "badjson"
    THEN [text |-> Absent, thrown |-> "Unexpected token"]
  ELSE IF ~ResponseOk(r)
    THEN [text |-> Absent,
          thrown |-> IF Truthy(r.detail) THEN r.detail
                     ELSE IF Truthy(r.error) THEN r.error
                     ELSE HttpErrorStatus(r.status)]
  ELSE IF r.bstatus = "success" /\ r.extracted_text # Absent
    THEN [text |-> IF Truthy(r.extracted_text) THEN r.extracted_text ELSE "",
          thrown |-> Absent]
  ELSE [text |-> Absent,
        thrown |-> IF Truthy(r.error) THEN r.error
                   ELSE "OCR failed. No text extracted."]

\* Try block of solveQuestion from the settled fetch on: the result it sets
\* (Null: none) and the message of the error it throws (Absent: none).
SolveTry(r) ==
  IF r.kind = "network" THEN [data |-> Null, thrown |-> "Failed to fetch"]
  ELSE IF r.kind = "badjson"
    THEN [data |-> Null, thrown |-> "Unexpected token"]
  ELSE IF ~ResponseOk(r)
    THEN [data |-> Null,
          thrown |-> IF Truthy(r.error) THEN r.error
                     ELSE IF Truthy(r.detail)
                       THEN JSON_stringifyDetail(r.detail)
                     ELSE HttpErrorStatus(r.status)]
  ELSE IF Truthy(r.error) THEN [data |-> Null, thrown |-> r.error]
  ELSE [data |-> r, thrown |-> Absent]

IndexInit ==
  [selectedFile |-> Null, imagePreviewUrl |-> Null, ocrText |-> "",
   loadingOcr |-> FALSE, loadingSolve |-> FALSE, solveResult |-> Null,
   apiError |-> Null, requests |-> NoRequests, readers |-> NoReaders]

\* Variant: resetState leaves the problem text in place.
resetState_KeepsText(p, clearFile) ==
  [p EXCEPT !.selectedFile = IF clearFile THEN Null ELSE @,
            !.imagePreviewUrl = IF clearFile THEN Null ELSE @,
            !.solveResult = Null,
            !.loadingOcr = FALSE,
            !.loadingSolve = FALSE,
            !.apiError = Null]

resetState(p, clearFile) ==
  [p EXCEPT !.selectedFile = IF clearFile THEN Null ELSE @,
            !.imagePreviewUrl = IF clearFile THEN Null ELSE @,
            !.ocrText = "",
            !.solveResult = Null,
            !.loadingOcr = FALSE,
            !.loadingSolve = FALSE,
            !.apiError = Null]

\* onFileChange for the file the event carries (Null: none): the page
\* state it leaves and the toast it shows.  A FileReader is started for
\* the accepted file.
IndexFileChange(p, file) ==
  IF file = Null THEN [p |-> resetState(p, TRUE), toast |-> NoToast]
  ELSE IF file.type \notin allowedTypes
    THEN [p |-> resetState(p, TRUE), toast |-> "Invalid file type"]
  ELSE IF file.size > MaxFileSize
    THEN [p |-> resetState(p, TRUE), toast |-> "File too large"]
  ELSE [p |-> [resetState(p, FALSE) EXCEPT
                 !.selectedFile = file,
                 !.readers = StartReader(@, file)],
        toast |-> NoToast]

\* A handler run of the page, which is mounted while its route is shown.
IndexStep(p, call) ==
  /\ location = "/ocr"
  /\ index' = p
  /\ lastCall' = call
  /\ UNCHANGED sessionVars
  /\ UNCHANGED <<tutor, chat>>

\* The hidden file input's change event.  The input is opened by the
\* "Choose File" button and by a click on the drop zone; neither the input
\* nor the drop zone is disabled while a request is in flight.
onFileChange ==
  \E file \in Files \cup {Null} :
    LET o == IndexFileChange(index, file)
    IN /\ CanRead(o.p.readers)
       /\ IndexStep(o.p, Did("onFileChange", file, o.toast, NoResp))

\* The drop zone's drop event.
onDrop ==
  \E file \in Files \cup {Null} :
    LET o == IF file = Null THEN [p |-> index, toast |-> NoToast]
             ELSE IndexFileChange(index, file)
    IN /\ CanRead(o.p.readers)
       /\ IndexStep(o.p, Did("onDrop", file, o.toast, NoResp))

\* reader.onloadend of a FileReader started by onFileChange.
readerLoadEnd ==
  \E file \in Reading(index.readers) :
    IndexStep([index EXCEPT !.imagePreviewUrl = DataUrl(file),
                            !.readers[file] = @ - 1],
              Did("readerLoadEnd", Null, NoToast, NoResp))

\* "Extract Text" button: disabled={loadingOcr || loadingSolve ||
\* !selectedFile}.
ExtractEnabled(p) ==
  ~p.loadingOcr /\ ~p.loadingSolve /\ p.selectedFile # Null

\* extractQuestion up to its await.
extractQuestion ==
  /\ ExtractEnabled(index)
  /\ CanFetch(index.requests)
  /\ IF index.selectedFile = Null
       THEN IndexStep(index, Did("extractQuestion", Null,
                                 "No file selected",
                                 NoResp))
       ELSE LET q == Request("/upload-image", {},
                             index.selectedFile)
            IN IndexStep([index EXCEPT !.loadingOcr = TRUE,
                                       !.ocrText = "",
                                       !.solveResult = Null,
                                       !.apiError = Null,
                                       !.requests = Fetch(@, q)],
                         Did("extractQuestion", Null, NoToast, NoResp))

\* extractQuestion from its await on: try, catch, finally.
extractSettled ==
  \E q \in InFlight(index.requests, "/upload-image"), r \in OcrResponses :
    LET t == ExtractTry(r)
    IN IndexStep(
         [index EXCEPT
            !.ocrText = IF t.thrown = Absent THEN t.text ELSE "",
            !.apiError =
              IF t.thrown = Absent THEN @
              ELSE Prefixed("OCR Error: ",
                            MessageOr(t.thrown,
                                      "Failed to connect to the OCR service.")),
            !.loadingOcr = FALSE,
            !.requests = Settle(@, q)],
         Did("extractSettled", Null,
             IF t.thrown = Absent THEN "Text Extracted" ELSE "OCR Failed",
             r))

\* Textarea: disabled={loadingOcr || loadingSolve}.
TextEnabled(p) == ~p.loadingOcr /\ ~p.loadingSolve

\* onChange of the Textarea.
textChange ==
  /\ TextEnabled(index)
  /\ \E t \in Texts \ {index.ocrText} :
       IndexStep([index EXCEPT !.ocrText = t, !.solveResult = Null],
                 Did("textChange", Null, NoToast, NoResp))

\* "Solve Question" button: disabled={loadingOcr || loadingSolve ||
\* !ocrText.trim()}.
SolveEnabled(p) ==
  ~p.loadingOcr /\ ~p.loadingSolve /\ Truthy(trim(p.ocrText))

\* solveQuestion up to its await.
solveQuestion ==
  /\ SolveEnabled(index)
  /\ CanFetch(index.requests)
  /\ LET question == trim(index.ocrText)
     IN IF ~Truthy(question)
          THEN IndexStep(index, Did("solveQuestion", Null,
                                    "No question text",
                                    NoResp))
          ELSE LET q == Request("/solve-text",
                                getAuthHeader,
                                [question_text |-> question])
               IN IndexStep([index EXCEPT !.loadingSolve = TRUE,
                                          !.solveResult = Null,
                                          !.apiError = Null,
                                          !.requests = Fetch(@, q)],
                            Did("solveQuestion", Null, NoToast, NoResp))

\* Variant: solveQuestion without its finally block.
solveSettled_NoFinally ==
  \E q \in InFlight(index.requests, "/solve-text") :
  \E r \in SolveResponses(q) :
    LET t == SolveTry(r)
    IN IndexStep(
         [index EXCEPT
            !.solveResult = t.data,
            !.apiError =
              IF t.thrown = Absent THEN @
              ELSE Prefixed("Solver Error: ",
                            MessageOr(t.thrown,
                                      "Failed to connect to the solver service.")),
            !.requests = Settle(@, q)],
         Did("solveSettled", Null,
             IF t.thrown = Absent THEN "Solution Generated" ELSE "Solving Failed",
             r))

\* solveQuestion from its await on: try, catch, finally.
solveSettled ==
  \E q \in InFlight(index.requests, "/solve-text") :
  \E r \in SolveResponses(q) :
    LET t == SolveTry(r)
    IN IndexStep(
         [index EXCEPT
            !.solveResult = t.data,
            !.apiError =
              IF t.thrown = Absent THEN @
              ELSE Prefixed("Solver Error: ",
                            MessageOr(t.thrown,
                                      "Failed to connect to the solver service.")),
            !.loadingSolve = FALSE,
            !.requests = Settle(@, q)],
         Did("solveSettled", Null,
             IF t.thrown = Absent THEN "Solution Generated" ELSE "Solving Failed",
             r))

\* "Try Another Question" button: rendered when (selectedFile || ocrText)
\* && !loadingOcr && !loadingSolve.
ResetRendered(p) ==
  /\ p.selectedFile # Null \/ Truthy(p.ocrText)
  /\ ~p.loadingOcr
  /\ ~p.loadingSolve

tryAnother ==
  /\ ResetRendered(index)
  /\ IndexStep(resetState(index, TRUE),
               Did("tryAnother",
                   [solveResult |-> index.solveResult,
                    ocrText |-> index.ocrText,
                    imagePreviewUrl |-> index.imagePreviewUrl],
                   NoToast, NoResp))

\* ========================================================= TutorComponent
\* src/components/TutorComponent.tsx: the tutor at /tutor, with its file
\* upload, its problem text, its solution, its step explanations, its
\* computer-science practice and the start and stop of its camera.  Voice
\* input and the camera capture are left unused (isRecording and isCapturing
\* stay false).

\* The steps a solution lists, and the two follow-up questions.
StepNumbers == {1, 2}
QueryTypes == {"why", "how"}

\* stepExplanations[n] when the cache has no entry for n.
NoEntry == [none |-> TRUE]

\* What the fetch of /explain-step can produce for the request q: the
\* explanation is of the step the request names, of the solution the
\* request carries.
ExplainBodies(q) ==
  [kind : {"body"}, status : {StatusOk, StatusServerError},
   explanation : {Null, [explains |-> q.body.solution.answer,
                         step |-> q.body.step_number_to_explain]},
   detail : {Absent, "detail text"},
   error : {Absent, "error text"}]

ExplainResponses(q) ==
  {[kind |-> "network"]} \cup
  {r \in ExplainBodies(q) :
     /\ r.status = StatusOk => r.detail = Absent
     /\ (r.status = StatusOk /\ r.error = Absent) <=> r.explanation # Null}

\* stepExplanations = {}
NoExplanations == [n \in StepNumbers |-> NoEntry]

TutorInit ==
  [problemInput |-> "", solution |-> Null,
   stepExplanations |-> NoExplanations,
   isLoadingSolution |-> FALSE, solutionError |-> Null,
   selectedFile |-> Null, imagePreviewUrl |-> Null, loadingOcr |-> FALSE,
   ocrApiError |-> Null, requests |-> NoRequests, readers |-> NoReaders,
   selectedSubjectName |-> "", selectedChapterName |-> "",
   currentCSQuestion |-> Null, csSubmissionFeedback |-> Null,
   isLoadingPractice |-> FALSE, practiceError |-> Null,
   isSubmittingCS |-> FALSE,
   isCameraActive |-> FALSE, cameraError |-> Null, streamRef |-> Null,
   permissionRequests |-> 0]

resetUploadState(p) ==
  [p EXCEPT !.selectedFile = Null,
            !.imagePreviewUrl = Null,
            !.loadingOcr = FALSE,
            !.ocrApiError = Null]

\* onFileChange for the file the event carries (Null: none): the state it
\* leaves and the toast it shows.  A FileReader is started for an accepted
\* file that is not a PDF.
TutorFileChange(p, file) ==
  IF file = Null THEN [p |-> resetUploadState(p), toast |-> NoToast]
  ELSE IF file.type \notin allowedTypes
    THEN [p |-> resetUploadState(p), toast |-> "Invalid file type"]
  ELSE IF file.size > MaxFileSize
    THEN [p |-> resetUploadState(p), toast |-> "File too large"]
  ELSE LET p1 == [p EXCEPT !.solution = Null,
                           !.stepExplanations = NoExplanations,
                           !.solutionError = Null,
                           !.ocrApiError = Null,
                           !.selectedFile = file]
       IN [p |-> IF file.type # "application/pdf"
                   THEN [p1 EXCEPT !.readers = StartReader(@, file)]
                   ELSE [p1 EXCEPT !.imagePreviewUrl = Null],
           toast |-> NoToast]

\* A handler run of the page, which is mounted while its route is shown.
TutorStep(p, call) ==
  /\ location = "/tutor"
  /\ tutor' = p
  /\ lastCall' = call
  /\ UNCHANGED sessionVars
  /\ UNCHANGED <<index, chat>>

\* The hidden file input: disabled={loadingOcr || ...}; it is opened by the
\* "Choose File" button (disabled when a file is selected) and by a click
\* on the drop zone (which opens it only when no file is selected).  Its
\* value is empty whenever it can be opened, so its change event carries a
\* file.
ChooseEnabled(p) ==
  ~p.loadingOcr /\ ~p.isCameraActive /\ p.selectedFile = Null

TutorOnFileChange ==
  /\ ChooseEnabled(tutor)
  /\ \E file \in Files :
       LET o == TutorFileChange(tutor, file)
       IN /\ CanRead(o.p.readers)
          /\ TutorStep(o.p, Did("TutorOnFileChange", file, o.toast, NoResp))

\* The drop zone's drop event; the drop zone is never disabled.
TutorOnDrop ==
  \E file \in Files \cup {Null} :
    LET o == IF file = Null THEN [p |-> tutor, toast |-> NoToast]
             ELSE TutorFileChange(tutor, file)
    IN /\ CanRead(o.p.readers)
       /\ TutorStep(o.p, Did("TutorOnDrop", file, o.toast, NoResp))

\* reader.onloadend of a FileReader started by onFileChange.
TutorReaderLoadEnd ==
  \E file \in Reading(tutor.readers) :
    TutorStep([tutor EXCEPT !.imagePreviewUrl = DataUrl(file),
                            !.readers[file] = @ - 1],
              Did("TutorReaderLoadEnd", Null, NoToast, NoResp))

\* "Extract Text from Image" button: rendered when a file is selected,
\* disabled={loadingOcr}.
TutorExtractEnabled(p) == p.selectedFile # Null /\ ~p.loadingOcr

\* extractQuestion up to its await.
TutorExtractQuestion ==
  /\ TutorExtractEnabled(tutor)
  /\ CanFetch(tutor.requests)
  /\ IF tutor.selectedFile = Null
       THEN TutorStep(tutor, Did("TutorExtractQuestion", Null,
                                 "No file selected",
                                 NoResp))
       ELSE LET q == Request("/upload-image", {},
                             tutor.selectedFile)
            IN TutorStep([tutor EXCEPT !.loadingOcr = TRUE,
                                       !.problemInput = "",
                                       !.solution = Null,
                                       !.stepExplanations = NoExplanations,
                                       !.solutionError = Null,
                                       !.ocrApiError = Null,
                                       !.requests = Fetch(@, q)],
                         Did("TutorExtractQuestion", Null, NoToast, NoResp))

\* Try block of extractQuestion from the settled fetch on.
TutorExtractTry(r) ==
  IF r.kind = "network" THEN [text |-> Absent, thrown |-> "Failed to fetch"]
  ELSE IF r.kind = "badjson"
    THEN [text |-> Absent, thrown |-> "Unexpected token"]
  ELSE IF ~ResponseOk(r)
    THEN [text |-> Absent,
          thrown |-> IF Truthy(r.detail) THEN r.detail
                     ELSE IF Truthy(r.error) THEN r.error
                     ELSE HttpErrorStatus(r.status)]
  ELSE IF r.bstatus = "success" /\ r.extracted_text # Absent
    THEN [text |-> IF Truthy(r.extracted_text) THEN r.extracted_text ELSE "",
          thrown |-> Absent]
  ELSE [text |-> Absent,
        thrown |-> IF Truthy(r.error) THEN r.error
                   ELSE "OCR failed. No text extracted."]

\* extractQuestion from its await on: try, catch, finally.
TutorExtractSettled ==
  \E q \in InFlight(tutor.requests, "/upload-image"), r \in OcrResponses :
    LET t == TutorExtractTry(r)
        p1 == IF t.thrown = Absent
                THEN resetUploadState([tutor EXCEPT !.problemInput = t.text])
                ELSE [tutor EXCEPT
                        !.ocrApiError =
                          Prefixed("",
                            MessageOr(t.thrown,
                              "Failed to connect to the OCR service.")),
                        !.problemInput = ""]
    IN TutorStep([p1 EXCEPT !.loadingOcr = FALSE, !.requests = Settle(@, q)],
                 Did("TutorExtractSettled", Null,
                     IF t.thrown = Absent THEN "Text Extracted" ELSE "OCR Failed",
                     r))

\* "Clear Selection" button: rendered when a file is selected,
\* disabled={loadingOcr}.
ClearSelection ==
  /\ tutor.selectedFile # Null
  /\ ~tutor.loadingOcr
  /\ TutorStep([resetUploadState(tutor) EXCEPT !.problemInput = ""],
               Did("ClearSelection", Null, NoToast, NoResp))

\* Problem Textarea: disabled={isLoadingSolution || loadingOcr || ...}.
ProblemEnabled(p) ==
  ~p.isLoadingSolution /\ ~p.loadingOcr /\ ~p.isCameraActive

\* onChange of the problem Textarea.
problemChange ==
  /\ ProblemEnabled(tutor)
  /\ \E t \in Texts \ {tutor.problemInput} :
       TutorStep([tutor EXCEPT !.problemInput = t],
                 Did("problemChange", Null, NoToast, NoResp))

\* "Solve Problem" button: disabled={isLoadingSolution || loadingOcr || ...
\* || !problemInput.trim()}.
GenerateEnabled(p) ==
  /\ ~p.isLoadingSolution /\ ~p.loadingOcr /\ ~p.isCameraActive
  /\ Truthy(trim(p.problemInput))

\* handleGenerateSolution up to its await.
handleGenerateSolution ==
  /\ GenerateEnabled(tutor)
  /\ CanFetch(tutor.requests)
  /\ IF ~Truthy(trim(tutor.problemInput))
       THEN TutorStep(tutor, Did("handleGenerateSolution", Null,
                                 "Error",
                                 NoResp))
       ELSE LET q == Request("/solve-text", getAuthHeader,
                             [question_text |-> tutor.problemInput])
            IN TutorStep([tutor EXCEPT !.isLoadingSolution = TRUE,
                                       !.solution = Null,
                                       !.stepExplanations = NoExplanations,
                                       !.solutionError = Null,
                                       !.requests = Fetch(@, q)],
                         Did("handleGenerateSolution", Null, NoToast, NoResp))

\* Try block of handleGenerateSolution from the settled fetch on.
GenerateTry(r) ==
  IF r.kind = "network" THEN [data |-> Null, thrown |-> "Failed to fetch"]
  ELSE IF r.kind = "badjson"
    THEN [data |-> Null, thrown |-> "Unexpected token"]
  ELSE IF ~ResponseOk(r)
    THEN [data |-> Null,
          thrown |-> IF Truthy(r.error) THEN r.error
                     ELSE IF Truthy(r.detail)
                       THEN JSON_stringifyDetail(r.detail)
                     ELSE HttpErrorStatus(r.status)]
  ELSE IF Truthy(r.error) THEN [data |-> Null, thrown |-> r.error]
  ELSE [data |-> r, thrown |-> Absent]

\* handleGenerateSolution from its await on: try, catch, finally.
generateSettled ==
  \E q \in InFlight(tutor.requests, "/solve-text") :
  \E r \in SolveResponses(q) :
    LET t == GenerateTry(r)
    IN TutorStep(
         [tutor EXCEPT
            !.solution = t.data,
            !.solutionError =
              IF t.thrown = Absent THEN @
              ELSE Prefixed("Solver Error: ",
                            MessageOr(t.thrown,
                                      "Failed to connect to the solver service.")),
            !.isLoadingSolution = FALSE,
            !.requests = Settle(@, q)],
         Did("generateSettled", Null,
             IF t.thrown = Absent THEN "Solution Generated" ELSE "Solving Failed",
             r))

\* prev[stepNumber] spread into a new entry: the fields of a missing entry
\* are undefined.
Spread(e) ==
  IF e = NoEntry
    THEN [explanation |-> Null, isLoading |-> FALSE, error |-> Absent,
          queryType |-> Absent]
    ELSE e

\* Variant: the update forgets to spread prev.
SetEntry_DropsOthers(prev, stepNumber, e) ==
  [i \in StepNumbers |-> IF i = stepNumber THEN e ELSE NoEntry]

\* prev => ({...prev, [stepNumber]: e})
SetEntry(prev, stepNumber, e) == [prev EXCEPT ![stepNumber] = e]

\* "Why this step?" / "How to do this?" buttons of step n: rendered with
\* the solution, disabled={stepExplanations[n]?.isLoading ||
\* isLoadingSolution}.
ExplainEnabled(p, n) ==
  /\ p.solution # Null
  /\ ~Spread(p.stepExplanations[n]).isLoading
  /\ ~p.isLoadingSolution

\* handleExplainStep up to its await.
handleExplainStep ==
  \E n \in StepNumbers, queryType \in QueryTypes :
    /\ ExplainEnabled(tutor, n)
    /\ CanFetch(tutor.requests)
    /\ IF tutor.solution = Null
         THEN TutorStep(tutor, Did("handleExplainStep", n, NoToast, NoResp))
         ELSE LET q == Request("/explain-step",
                               getAuthHeader,
                               [solution |-> tutor.solution,
                                step_number_to_explain |-> n,
                                query_type |-> queryType])
              IN TutorStep(
                   [tutor EXCEPT
                      !.stepExplanations =
                        SetEntry(@, n,
                                 [Spread(@[n]) EXCEPT
                                    !.isLoading = TRUE,
                                    !.error = Absent,
                                    !.queryType = queryType]),
                      !.requests = Fetch(@, q)],
                   Did("handleExplainStep", n, NoToast, NoResp))

\* Try block of handleExplainStep from the settled fetch on.
ExplainTry(r) ==
  IF r.kind = "network"
    THEN [explanation |-> Null, thrown |-> "Failed to fetch"]
  ELSE IF r.kind = "badjson"
    THEN [explanation |-> Null, thrown |-> "Unexpected token"]
  ELSE IF ~ResponseOk(r) \/ Truthy(r.error)
    THEN [explanation |-> Null,
          thrown |-> IF Truthy(r.error) THEN r.error
                     ELSE IF Truthy(r.detail) THEN r.detail
                     ELSE HttpErrorStatus(r.status)]
  ELSE [explanation |-> r.explanation, thrown |-> Absent]

\* handleExplainStep from its await on: try, catch.
explainSettled ==
  \E q \in InFlight(tutor.requests, "/explain-step") :
    \E r \in ExplainResponses(q) :
      LET t == ExplainTry(r)
          n == q.body.step_number_to_explain
      IN TutorStep(
           [tutor EXCEPT
              !.stepExplanations =
                SetEntry(@, n,
                  IF t.thrown = Absent
                    THEN [Spread(@[n]) EXCEPT !.explanation = t.explanation,
                                              !.isLoading = FALSE,
                                              !.error = Absent]
                    ELSE [Spread(@[n]) EXCEPT
                            !.isLoading = FALSE,
                            !.error = MessageOr(t.thrown,
                                                "Failed to get explanation.")]),
              !.requests = Settle(@, q)],
           Did("explainSettled", n,
               IF t.thrown = Absent THEN NoToast ELSE "Error Explaining Step",
               r))

\* ---------------------------------------------- computer-science practice
\* onValueChange of the subject Select, and the effect on
\* selectedSubjectName that resets the chapter.  The Select reports a value
\* other than the selected one.
selectSubject ==
  \E name \in {"Computer Science"} \ {tutor.selectedSubjectName} :
    TutorStep([tutor EXCEPT !.selectedSubjectName = name,
                            !.selectedChapterName = ""],
              Did("selectSubject", name, NoToast, NoResp))

\* onValueChange of the chapter Select, rendered once a subject is selected.
selectChapter ==
  /\ Truthy(tutor.selectedSubjectName)
  /\ \E name \in {"Arrays", "Graphs"} \ {tutor.selectedChapterName} :
       TutorStep([tutor EXCEPT !.selectedChapterName = name],
                 Did("selectChapter", name, NoToast, NoResp))

\* "Get Practice Problem" button, disabled={isLoadingPractice ||
\* !selectedChapterName}: handleGetPracticeProblem up to its await, for the
\* subject "Computer Science".
handleGetPracticeProblem ==
  /\ ~tutor.isLoadingPractice
  /\ Truthy(tutor.selectedChapterName)
  /\ tutor.selectedSubjectName = "Computer Science"
  /\ CanFetch(tutor.requests)
  /\ LET p1 == [tutor EXCEPT !.currentCSQuestion = Null,
                             !.csSubmissionFeedback = Null,
                             !.practiceError = Null,
                             !.isSubmittingCS = FALSE]
         q == Request("/cs/questions", getAuthHeader,
                      [chapter_name |-> tutor.selectedChapterName])
     IN IF ~Truthy(tutor.selectedChapterName)
          THEN TutorStep(p1, Did("handleGetPracticeProblem", Null,
                                 "No Chapter Selected", NoResp))
          ELSE TutorStep([p1 EXCEPT !.isLoadingPractice = TRUE,
                                    !.requests = Fetch(@, q)],
                         Did("handleGetPracticeProblem", Null, NoToast,
                             NoResp))

\* handleGetPracticeProblem from its await on: try, catch, finally.  The
\* server answers with a question of the chapter asked for (id 0: a body
\* without an id), or with an error.
getPracticeSettled ==
  \E q \in InFlight(tutor.requests, "/cs/questions") :
  \E r \in {[kind |-> "network"]} \cup
           [kind : {"body"}, status : {StatusOk},
            question : [id : {0, 1, 2}, question_type : {"mcq"},
                        chapter : {q.body.chapter_name}],
            detail : {Absent}] \cup
           [kind : {"body"}, status : {StatusServerError},
            question : {Null}, detail : {Absent, "detail text"}] :
    LET thrown == IF r.kind = "network" THEN "Failed to fetch"
                  ELSE IF ~ResponseOk(r)
                    THEN IF Truthy(r.detail) THEN r.detail
                         ELSE HttpErrorStatus(r.status)
                  ELSE IF r.question.id = 0
                    THEN "Received malformed question data from server."
                  ELSE Absent
        p1 == IF thrown = Absent
                THEN [tutor EXCEPT !.currentCSQuestion = r.question]
                ELSE [tutor EXCEPT
                        !.practiceError =
                          Prefixed("",
                            MessageOr(thrown,
                              "Failed to connect to the CS question service.")),
                        !.currentCSQuestion = Null]
    IN TutorStep([p1 EXCEPT !.isLoadingPractice = FALSE,
                            !.requests = Settle(@, q)],
                 Did("getPracticeSettled", Null,
                     IF thrown = Absent THEN "CS Question Loaded"
                     ELSE "Error Loading CS Question",
                     r))

\* Submit button of the displayed question (rendered when the subject is
\* "Computer Science" and currentCSQuestion is set, disabled={isSubmitting
\* || no answer}): handleCSSubmit up to its await.
handleCSSubmit ==
  /\ tutor.selectedSubjectName = "Computer Science"
  /\ tutor.currentCSQuestion # Null
  /\ ~tutor.isSubmittingCS
  /\ CanFetch(tutor.requests)
  /\ \E submittedAnswer \in {"a"} :
       LET q == Request("/cs/submit", getAuthHeader,
                        [question_id |-> tutor.currentCSQuestion.id,
                         question_type |->
                           tutor.currentCSQuestion.question_type,
                         answer |-> submittedAnswer])
       IN TutorStep([tutor EXCEPT !.isSubmittingCS = TRUE,
                                  !.csSubmissionFeedback = Null,
                                  !.requests = Fetch(@, q)],
                    Did("handleCSSubmit", submittedAnswer, NoToast, NoResp))

\* handleCSSubmit from its await on: try, catch, finally.  The server's
\* feedback explains the answer to the question the request names (an
\* explanation of Null: a body without one).
csSubmitSettled ==
  \E q \in InFlight(tutor.requests, "/cs/submit") :
  \E r \in {[kind |-> "network"]} \cup
           [kind : {"body"}, status : {StatusOk},
            feedback : [correct : BOOLEAN,
                        explanation : {Null, [of |-> q.body.question_id]},
                        ai_feedback : {Absent}],
            detail : {Absent}] \cup
           [kind : {"body"}, status : {StatusServerError},
            feedback : {Null}, detail : {Absent, "detail text"}] :
    LET thrown == IF r.kind = "network" THEN "Failed to fetch"
                  ELSE IF ~ResponseOk(r)
                    THEN IF Truthy(r.detail) THEN r.detail
                         ELSE HttpErrorStatus(r.status)
                  ELSE IF r.feedback.explanation = Null
                    THEN "Received malformed feedback data from server."
                  ELSE Absent
        p1 == IF thrown = Absent
                THEN [tutor EXCEPT !.csSubmissionFeedback = r.feedback]
                ELSE [tutor EXCEPT
                        !.csSubmissionFeedback =
                          [correct |-> FALSE,
                           explanation |->
                             Prefixed("Error: ",
                               MessageOr(thrown,
                                 "Failed to connect to the submission service.")),
                           ai_feedback |->
                             "Could not process submission due to an error."]]
    IN TutorStep([p1 EXCEPT !.isSubmittingCS = FALSE,
                            !.requests = Settle(@, q)],
                 Did("csSubmitSettled", q.body.question_id,
                     IF thrown = Absent THEN "Submission Processed"
                     ELSE "Submission Error",
                     r))

\* ------------------------------------------------------------------ camera
\* "Start Camera" button, rendered while the camera is not active,
\* disabled={loadingOcr || isLoadingSolution || ...}: startCamera up to its
\* await of getUserMedia.
startCamera ==
  /\ ~tutor.isCameraActive
  /\ ~tutor.loadingOcr
  /\ ~tutor.isLoadingSolution
  /\ tutor.permissionRequests < MaxRequests
  /\ TutorStep([tutor EXCEPT !.cameraError = Null,
                             !.isCameraActive = TRUE,
                             !.permissionRequests = @ + 1],
               Did("startCamera", Null, NoToast, NoResp))

\* startCamera from its await on: getUserMedia resolves with a stream, which
\* is stored in streamRef and given to the video element (mounted with the
\* page), or rejects with an error of some name.
startCameraSettled ==
  /\ tutor.permissionRequests > 0
  /\ \E r \in [kind : {"stream"}, tracks : {"live"}] \cup
              [kind : {"error"},
               name : {"NotAllowedError", "NotFoundError",
                       "NotReadableError", "AbortError"}] :
       IF r.kind = "stream"
         THEN TutorStep([tutor EXCEPT !.streamRef = r,
                                      !.permissionRequests = @ - 1],
                        Did("startCameraSettled", Null, NoToast, r))
         ELSE LET errMsg ==
                    IF r.name \in {"NotAllowedError", "PermissionDeniedError"}
                      THEN "Camera permission denied. Please allow access in browser settings."
                    ELSE IF r.name \in {"NotFoundError",
                                        "DevicesNotFoundError"}
                      THEN "No suitable camera found. Please ensure a camera is connected."
                    ELSE IF r.name \in {"NotReadableError",
                                        "TrackStartError"}
                      THEN "Camera might be in use by another application."
                    ELSE "Could not access the camera."
              IN TutorStep([tutor EXCEPT !.cameraError = Prefixed("", errMsg),
                                         !.isCameraActive = FALSE,
                                         !.streamRef = Null,
                                         !.permissionRequests = @ - 1],
                           Did("startCameraSettled", Null, "Camera Error", r))

\* "Stop Camera" button, rendered while the camera is active,
\* disabled={isCapturing}.
stopCamera ==
  /\ tutor.isCameraActive
  /\ TutorStep([tutor EXCEPT !.streamRef = Null,
                             !.isCameraActive = FALSE,
                             !.cameraError = Null],
               Did("stopCamera", Null, NoToast, NoResp))

\* =============================================================== ChatPage
\* The chat page at /chat: a message with an optional image attachment.
\* Voice input is left unused (isVoiceRecording stays false).

ChatTexts == {"", " ", "x"}

\* Files the image input is given.
ChatFiles ==
  {[type |-> "image/png", size |-> MaxFileSize],
   [type |-> "image/webp", size |-> MaxFileSize]}

\* What the fetch of /api/chat can produce.
ChatBodies ==
  [kind : {"body"}, status : {StatusOk, StatusServerError},
   answer : {Absent, "answer text"},
   detail : {Absent, "detail text"}]

ChatResponses ==
  {[kind |-> "network"]} \cup
  [kind : {"badjson"}, status : {StatusOk, StatusServerError}] \cup
  {r \in ChatBodies :
     /\ r.status = StatusOk => r.detail = Absent
     /\ r.status # StatusOk => r.answer = Absent}

ChatInit ==
  [messages |-> <<>>, currentMessage |-> "", isLoadingResponse |-> FALSE,
   selectedImageFile |-> Null, imagePreviewForMessage |-> Null,
   requests |-> NoRequests, readers |-> NoReaders]

ChatMessage(sender, prefix, text) ==
  [sender |-> sender, text |-> Prefixed(prefix, text)]

\* A handler run of the page, which is mounted while its route is shown.
ChatStep(p, call) ==
  /\ location = "/chat"
  /\ chat' = p
  /\ lastCall' = call
  /\ UNCHANGED sessionVars
  /\ UNCHANGED <<index, tutor>>

\* "Attach image" button: disabled={isLoadingResponse || isVoiceRecording};
\* it opens the hidden image input, whose value is reset after every
\* selection, so its change event carries a file.
AttachEnabled(p) == ~p.isLoadingResponse

\* onChange of the hidden image input.
imageChange ==
  /\ AttachEnabled(chat)
  /\ \E file \in ChatFiles :
       /\ chat.readers[file] < MaxReads
       /\ ChatStep([chat EXCEPT
                   !.selectedImageFile = file,
                   !.readers = StartReader(@, file)],
                Did("imageChange", file, NoToast, NoResp))

\* reader.onloadend of a FileReader started by the image input.
imageLoadEnd ==
  \E file \in Reading(chat.readers) :
    ChatStep([chat EXCEPT !.imagePreviewForMessage = DataUrl(file),
                          !.readers[file] = @ - 1],
             Did("imageLoadEnd", Null, NoToast, NoResp))

\* "Remove image" button: rendered with the preview.
removeImage ==
  /\ chat.imagePreviewForMessage # Null
  /\ ChatStep([chat EXCEPT !.selectedImageFile = Null,
                           !.imagePreviewForMessage = Null],
              Did("removeImage", Null, NoToast, NoResp))

\* Message Input: disabled={isLoadingResponse}.
messageChange ==
  /\ ~chat.isLoadingResponse
  /\ \E t \in ChatTexts \ {chat.currentMessage} :
       ChatStep([chat EXCEPT !.currentMessage = t],
                Did("messageChange", Null, NoToast, NoResp))

\* Send button: disabled={isLoadingResponse || (!currentMessage.trim() &&
\* !selectedImageFile)}.
SendEnabled(p) ==
  /\ ~p.isLoadingResponse
  /\ Truthy(trim(p.currentMessage)) \/ p.selectedImageFile # Null

\* messageToSendToChatApi: the extracted text (Absent: no image was
\* processed) and the typed message, joined by a blank line when both are
\* there.
Combined(extracted, typed) ==
  [extracted |-> extracted,
   separator |-> IF extracted # Absent /\ Truthy(typed) THEN "\n\n" ELSE "",
   typed |-> typed]

\* messageToSendToChatApi.trim() is the empty string.
CombinedBlank(m) ==
  /\ ~Truthy(m.typed)
  /\ m.extracted = Absent \/ ~Truthy(trim(m.extracted))

\* finalQuestionForApi: messageToSendToChatApi.trim() || (preview ?
\* "[Image Content]" : ""); empty says that it is the empty string.
FinalQuestion(m, preview) ==
  IF ~CombinedBlank(m) THEN [empty |-> FALSE, text |-> m]
  ELSE IF preview # Null
    THEN [empty |-> FALSE, text |-> [literal |-> "[Image Content]"]]
  ELSE [empty |-> TRUE, text |-> [literal |-> ""]]

\* "Step 2" of handleSendMessage: the /api/chat request for the message m,
\* or none when there is nothing to send.
ChatRequest(m, preview) ==
  LET finalQuestionForApi == FinalQuestion(m, preview)
  IN IF finalQuestionForApi.empty /\ preview = Null
       THEN NoRequest
       ELSE Request("/api/chat", getAuthHeader, finalQuestionForApi.text)

\* handleSendMessage up to its first await.
handleSendMessage ==
  /\ SendEnabled(chat)
  /\ LET trimmedMessage == trim(chat.currentMessage)
         userImagePreviewUrlForThisMessage == chat.imagePreviewForMessage
         fileToSend == chat.selectedImageFile
         p1 == [chat EXCEPT
                  !.isLoadingResponse = TRUE,
                  !.messages = Append(@, ChatMessage("user", "",
                                                     trimmedMessage)),
                  !.currentMessage = "",
                  !.selectedImageFile = Null,
                  !.imagePreviewForMessage = Null]
     IN IF ~Truthy(trimmedMessage) /\ fileToSend = Null
          THEN ChatStep(chat, Did("handleSendMessage", Null,
                                  "Cannot Send",
                                  NoResp))
        ELSE IF fileToSend # Null /\ userImagePreviewUrlForThisMessage # Null
          THEN LET q == Request("/upload-image", getAuthHeader,
                                [file |-> fileToSend,
                                 trimmedMessage |-> trimmedMessage,
                                 preview |-> userImagePreviewUrlForThisMessage])
               IN /\ CanFetch(chat.requests)
                  /\ Len(chat.messages) + 2 <= MaxMessages
                  /\ ChatStep([p1 EXCEPT !.requests = Fetch(@, q)],
                              Did("handleSendMessage", Null, NoToast, NoResp))
        ELSE LET q == ChatRequest(Combined(Absent, trimmedMessage),
                                  userImagePreviewUrlForThisMessage)
             IN IF q = NoRequest
                  THEN /\ Len(chat.messages) < MaxMessages
                       /\ ChatStep([p1 EXCEPT !.isLoadingResponse = FALSE],
                                   Did("handleSendMessage", Null,
                                       NoToast,
                                       NoResp))
                  ELSE /\ CanFetch(chat.requests)
                       /\ Len(chat.messages) + 2 <= MaxMessages
                       /\ ChatStep([p1 EXCEPT !.requests = Fetch(@, q)],
                                   Did("handleSendMessage", Null,
                                       NoToast,
                                       NoResp))

\* `Image processing error: ${ocrResponse.status}`
ImageProcessingError(status) ==
  CASE status = StatusBadRequest -> "Image processing error: 400"
    [] status = StatusServerError -> "Image processing error: 500"
    [] OTHER -> "Image processing error: 200"

\* "Step 1" of handleSendMessage from the settled fetch on: the extracted
\* text (Absent: none) and the message of the error thrown (Absent: none).
ChatOcrTry(r) ==
  IF r.kind = "network" THEN [text |-> Absent, thrown |-> "Failed to fetch"]
  ELSE IF ~ResponseOk(r)
    THEN [text |-> Absent,
          thrown |-> IF r.kind = "badjson" THEN "Failed to process image."
                     ELSE IF Truthy(r.detail) THEN r.detail
                     ELSE ImageProcessingError(r.status)]
  ELSE IF r.kind = "badjson"
    THEN [text |-> Absent, thrown |-> "Unexpected token"]
  ELSE IF Truthy(r.error) \/ r.extracted_text = Absent
    THEN [text |-> Absent,
          thrown |-> IF Truthy(r.error) THEN r.error
                     ELSE "Could not extract text from image."]
  ELSE [text |-> r.extracted_text, thrown |-> Absent]

\* The catch block of handleSendMessage followed by its finally.
ChatCatch(p, thrown) ==
  [p EXCEPT
     !.messages = Append(@, ChatMessage("ai", "Error: ",
                            MessageOr(thrown, "Could not get a response."))),
     !.isLoadingResponse = FALSE]

\* handleSendMessage from its first await on: the image's text is joined
\* with the typed message and sent to /api/chat.
imageUploadSettled ==
  \E q \in InFlight(chat.requests, "/upload-image"), r \in OcrResponses :
    LET t == ChatOcrTry(r)
        p1 == [chat EXCEPT !.requests = Settle(@, q)]
        cq == ChatRequest(Combined(t.text, q.body.trimmedMessage),
                          q.body.preview)
    IN IF t.thrown # Absent
         THEN ChatStep(ChatCatch(p1, t.thrown),
                       Did("imageUploadSettled", Null,
                           "Chat Operation Failed",
                           r))
         ELSE ChatStep([p1 EXCEPT !.requests = Fetch(@, cq)],
                       Did("imageUploadSettled", Null, "Image Processed", r))

\* The /api/chat part of handleSendMessage from the settled fetch on: the
\* answer (Absent: none) and the message of the error thrown.
ChatTry(r) ==
  IF r.kind = "network" THEN [answer |-> Absent, thrown |-> "Failed to fetch"]
  ELSE IF ~ResponseOk(r)
    THEN [answer |-> Absent,
          thrown |-> IF r.kind = "badjson"
                       THEN "Failed to get response from chat API."
                     ELSE IF Truthy(r.detail) THEN r.detail
                     ELSE HttpErrorStatus(r.status)]
  ELSE IF r.kind = "badjson"
    THEN [answer |-> Absent, thrown |-> "Unexpected token"]
  ELSE [answer |-> IF Truthy(r.answer) THEN r.answer
                   ELSE "Sorry, I couldn't process that.",
        thrown |-> Absent]

\* handleSendMessage from its last await on.
chatSettled ==
  \E q \in InFlight(chat.requests, "/api/chat"), r \in ChatResponses :
    LET t == ChatTry(r)
        p1 == [chat EXCEPT !.requests = Settle(@, q)]
    IN IF t.thrown # Absent
         THEN ChatStep(ChatCatch(p1, t.thrown),
                       Did("chatSettled", Null, "Chat Operation Failed", r))
         ELSE ChatStep([p1 EXCEPT
                          !.messages = Append(@, ChatMessage("ai", "",
                                                             t.answer)),
                          !.isLoadingResponse = FALSE],
                       Did("chatSettled", Null, NoToast, r))

\* ========================================================= specifications
InitSession ==
  /\ ls \in [user : StoredUsers, token : StoredTokens,
             isLoggedIn : StoredFlags, userName : StoredNames,
             userEmail : StoredEmails]
  /\ (ls.userName = Absent) <=> (ls.userEmail = Absent)
  /\ user = Null
  /\ isLoggedIn = FALSE
  /\ isLoading = TRUE
  /\ token = Absent
  /\ initialized = FALSE
  /\ promise = [i \in LoginIds |-> "idle"]
  /\ fetches = 0
  /\ from = Absent
  /\ error = Absent
  /\ lastCall = Call("create", 0, NoResp, Absent)
  /\ index = IndexInit
  /\ tutor = TutorInit
  /\ chat = ChatInit

\* The page is loaded at a public route.
Init == InitSession /\ location \in Routes

\* The page is loaded at any route of the application.
InitApp == InitSession /\ location \in AppRoutes

Next ==
  \/ Initialize
  \/ login
  \/ loginSettled
  \/ logout
  \/ getAuthHeaderCall

Spec == Init /\ [][Next]_vars

\* The application: login is only ever called by the Login page's form.
NextUI ==
  \/ Initialize
  \/ handleSubmit
  \/ handleSubmitSettled
  \/ logout
  \/ getAuthHeaderCall

SpecUI == Init /\ [][NextUI]_vars


\* The application opened at any of its routes: the user may also follow a
\* link or enter a URL.
openRoute ==
  /\ UNCHANGED <<ls, user, isLoggedIn, isLoading, token, initialized,
                 promise, fetches, error>>
  /\ \E r \in AppRoutes \ {location} :
       /\ NavigateTo(r, Absent)
       /\ lastCall' = [op |-> "openRoute", route |-> r]
  /\ UNCHANGED pageVars

\* Home page ("/"): the buttons "Try Solver Now", "AI Tutor" and "Explore
\* Features", rendered once isLoading is false.
handleNavigateToProtected ==
  /\ location = "/"
  /\ ~isLoading
  /\ UNCHANGED <<ls, user, isLoggedIn, isLoading, token, initialized,
                 promise, fetches, error>>
  /\ UNCHANGED pageVars
  /\ \E route \in {"/ocr", "/tutor"} :
       IF isLoggedIn
         THEN /\ NavigateTo(route, FromPathname(Null))
              /\ lastCall' = [op |-> "handleNavigateToProtected",
                              route |-> route, toast |-> NoToast]
         ELSE /\ NavigateTo("/login",
                            FromPathname([from |-> [kind |-> "string",
                                                    value |-> route]]))
              /\ lastCall' = [op |-> "handleNavigateToProtected",
                              route |-> route, toast |-> "Login Required"]

NextApp ==
  \/ Initialize
  \/ handleSubmit
  \/ handleSubmitSettled
  \/ logout
  \/ getAuthHeaderCall
  \/ openRoute
  \/ handleNavigateToProtected

SpecApp == InitApp /\ [][NextApp]_vars

\* The problem-input screens, opened by a logged-in user: the OCR + solve
\* page, the upload / text / solve part of the tutor, and the chat page.
InitPages ==
  /\ LoggedIn
  /\ location \in {"/ocr", "/tutor", "/chat"}
  /\ index = IndexInit
  /\ tutor = TutorInit
  /\ chat = ChatInit

NextPages ==
  \/ onFileChange
  \/ onDrop
  \/ readerLoadEnd
  \/ extractQuestion
  \/ extractSettled
  \/ textChange
  \/ solveQuestion
  \/ solveSettled
  \/ tryAnother
  \/ TutorOnFileChange
  \/ TutorOnDrop
  \/ TutorReaderLoadEnd
  \/ TutorExtractQuestion
  \/ TutorExtractSettled
  \/ ClearSelection
  \/ problemChange
  \/ handleGenerateSolution
  \/ generateSettled
  \/ imageChange
  \/ imageLoadEnd
  \/ removeImage
  \/ messageChange
  \/ handleSendMessage
  \/ imageUploadSettled
  \/ chatSettled

SpecPages == InitPages /\ [][NextPages]_vars

\* The two orchestration instances (OCR + solve page, upload / text / solve
\* part of the tutor) when every request issued eventually resolves or
\* rejects: the continuation of a handler that awaits one is eventually run.
NextCalls ==
  \/ onFileChange
  \/ onDrop
  \/ readerLoadEnd
  \/ extractQuestion
  \/ extractSettled
  \/ textChange
  \/ solveQuestion
  \/ solveSettled
  \/ tryAnother
  \/ TutorOnFileChange
  \/ TutorOnDrop
  \/ TutorReaderLoadEnd
  \/ TutorExtractQuestion
  \/ TutorExtractSettled
  \/ ClearSelection
  \/ problemChange
  \/ handleGenerateSolution
  \/ generateSettled

SpecCallsFair ==
  /\ InitPages
  /\ [][NextCalls]_vars
  /\ WF_vars(extractSettled)
  /\ WF_vars(solveSettled)
  /\ WF_vars(TutorExtractSettled)
  /\ WF_vars(generateSettled)

\* The tutor's solution and step explanations, once the user has typed a
\* problem.
InitExplain ==
  /\ LoggedIn
  /\ location = "/tutor"
  /\ index = IndexInit
  /\ tutor = [TutorInit EXCEPT !.problemInput = " x "]
  /\ chat = ChatInit

NextExplain ==
  \/ handleGenerateSolution
  \/ generateSettled
  \/ handleExplainStep
  \/ explainSettled

SpecExplain == InitExplain /\ [][NextExplain]_vars

\* The tutor's computer-science practice and its camera.
NextPractice ==
  \/ selectSubject
  \/ selectChapter
  \/ handleGetPracticeProblem
  \/ getPracticeSettled
  \/ handleCSSubmit
  \/ csSubmitSettled
  \/ startCamera
  \/ startCameraSettled
  \/ stopCamera

SpecPractice == InitExplain /\ [][NextPractice]_vars

\* ================================================================ claims
AllSessionKeysAbsent(store) ==
  store.user = Absent /\ store.token = Absent /\ store.isLoggedIn = Absent

AllSessionKeysPresent(store) ==
  store.user # Absent /\ store.token # Absent /\ store.isLoggedIn # Absent

MemoryCleared(u, t, l) == u = Null /\ t = Absent /\ l = FALSE

\* C1: in every reachable state, isLoggedIn = true implies that user is not
\* null and token is not null.
C1_LoggedInImpliesUserAndToken ==
  isLoggedIn => (user # Null /\ token # Absent)

\* C2: every failed login call -- a non-ok status, a response without
\* access_token, a response without user, a network error -- rejects the
\* promise it returned, and every login call that rejects leaves the three
\* persisted keys absent and user = null, token = null, isLoggedIn = false.
C2_ListedFailure(r) ==
  \/ r.kind = "network"
  \/ /\ r.kind = "body"
     /\ \/ r.status # StatusOk
        \/ r.access_token = Absent
        \/ r.user = Null

C2_FailedLoginClearsAll ==
  [][lastCall'.op = "loginSettled" =>
       /\ C2_ListedFailure(lastCall'.resp) =>
            /\ promise'[lastCall'.id] = "rejected"
            /\ lastCall'.thrown # Absent
       /\ promise'[lastCall'.id] = "rejected" =>
            /\ AllSessionKeysAbsent(ls')
            /\ MemoryCleared(user', token', isLoggedIn')]_vars

\* C2 witness: a first login succeeded, a second one received a 200 response
\* with a user but no access_token, and the session is cleared.
C2_Witness ==
  /\ promise[1] = "fulfilled"
  /\ lastCall.op = "loginSettled"
  /\ lastCall.id = 2
  /\ lastCall.resp.kind = "body"
  /\ lastCall.resp.status = StatusOk
  /\ lastCall.resp.access_token = Absent
  /\ lastCall.resp.user = BobId
  /\ promise[2] = "rejected"
  /\ AllSessionKeysAbsent(ls)
  /\ MemoryCleared(user, token, isLoggedIn)

\* C3: when initialize finds one of user, token, isLoggedIn missing, or the
\* three inconsistent, it removes all three keys and leaves the session
\* logged out.
C3_MissingOrInconsistent(store) ==
  \/ ~Truthy(store.user)
  \/ ~Truthy(store.token)
  \/ store.isLoggedIn # "true"

C3_InitializeClearsInconsistentStorage ==
  [][(lastCall'.op = "initialize" /\ C3_MissingOrInconsistent(ls)) =>
       /\ AllSessionKeysAbsent(ls')
       /\ ~isLoggedIn']_vars

\* C4: when initialize finds isLoggedIn = "true", a token and a user text
\* that cannot be parsed, it completes (isLoading = false) with
\* isLoggedIn = false, user = null, token = null and the three keys removed.
C4_CorruptUserSelfHeals ==
  [][(/\ lastCall'.op = "initialize"
      /\ ls.isLoggedIn = "true"
      /\ Truthy(ls.token)
      /\ ls.user = JsonBad) =>
       /\ initialized'
       /\ ~isLoading'
       /\ MemoryCleared(user', token', isLoggedIn')
       /\ AllSessionKeysAbsent(ls')]_vars

\* C4 witness: initialize has just run on such a storage.
C4_Witness ==
  /\ lastCall.op = "initialize"
  /\ lastCall.found.isLoggedIn = "true"
  /\ lastCall.found.token = "t1"
  /\ lastCall.found.user = JsonBad
  /\ ~isLoading
  /\ AllSessionKeysAbsent(ls)

\* C5: when initialize finds the JSON text of a user object, a token and
\* isLoggedIn = "true", it ends with isLoggedIn = true, token equal to the
\* stored token, a non-null user whose JSON text is the stored one, and
\* isLoading = false.
C5_ValidSessionRestored ==
  [][(/\ lastCall'.op = "initialize"
      /\ ls.isLoggedIn = "true"
      /\ Truthy(ls.token)
      /\ ls.user \in {JsonAnn, JsonAnnId}) =>
       /\ isLoggedIn'
       /\ token' = ls.token
       /\ user' # Null
       /\ JSON_stringify(user') = ls.user
       /\ ~isLoading']_vars

\* C5 witness: initialize has just restored the session of a stored user
\* that carries a field beyond name and email.
C5_Witness ==
  /\ lastCall.op = "initialize"
  /\ lastCall.found.isLoggedIn = "true"
  /\ lastCall.found.token = "t1"
  /\ lastCall.found.user = JsonAnnId
  /\ isLoggedIn
  /\ user = AnnId
  /\ token = "t1"
  /\ ~isLoading

\* The header set {Authorization: "Bearer " + t}, written out.
BearerHeader(t) == {<<"Authorization", <<"Bearer ", t>>>>}

LoginFulfilled(c) == c.op = "loginSettled" /\ c.thrown = Absent

NoLoginSucceeded(p) == \A i \in LoginIds : p[i] # "fulfilled"

\* C6 (as stated): after a successful login that received token t,
\* getAuthHeader() returns exactly {Authorization: "Bearer " + t}; in every
\* state before any login has succeeded, and after logout, it returns {}.
C6_HeaderOnlyAfterLogin ==
  [][/\ LoginFulfilled(lastCall') =>
          getAuthHeader' = BearerHeader(lastCall'.resp.access_token)
     /\ NoLoginSucceeded(promise') => getAuthHeader' = {}
     /\ lastCall'.op = "logout" => getAuthHeader' = {}]_vars

\* C6 (amended): after a successful login that received token t,
\* getAuthHeader() returns exactly {Authorization: "Bearer " + t}; right
\* after logout it returns {}; and from any state in which it returns {}
\* (at page load: when no non-empty token is persisted) it keeps returning
\* {} until a login succeeds.
C6_HeaderFollowsStoredToken ==
  [][/\ LoginFulfilled(lastCall') =>
          getAuthHeader' = BearerHeader(lastCall'.resp.access_token)
     /\ lastCall'.op = "logout" => getAuthHeader' = {}
     /\ (getAuthHeader = {} /\ ~LoginFulfilled(lastCall')) =>
          getAuthHeader' = {}]_vars

\* C6 witness: a login has succeeded with token t2 and the header carries
\* it, with another login call still outstanding.
C6_Witness ==
  /\ LoginFulfilled(lastCall)
  /\ lastCall.id = 2
  /\ lastCall.resp.access_token = "t2"
  /\ promise[1] = "pending"
  /\ getAuthHeader = BearerHeader("t2")

\* The three session keys are all present or all absent.
Grouped(store) == AllSessionKeysPresent(store) \/ AllSessionKeysAbsent(store)

\* C7: every login call that settles and every logout leaves the three
\* persisted keys all present or all absent, and no later step of the
\* session manager (a login or logout, overlapping or not, the mount effect,
\* getAuthHeader) leaves them partially populated again.
C7_KeysWrittenAndClearedAsGroup ==
  [][/\ lastCall'.op \in {"loginSettled", "logout"} => Grouped(ls')
     /\ Grouped(ls) => Grouped(ls')]_vars

\* C7 witness: of two overlapping login calls the second has succeeded
\* while the first is still outstanding, and all three keys are present.
C7_Witness ==
  /\ promise[1] = "pending"
  /\ promise[2] = "fulfilled"
  /\ lastCall.op = "loginSettled"
  /\ lastCall.id = 2
  /\ AllSessionKeysPresent(ls)

\* C8: logout, in any state, leaves in one step the three persisted keys
\* absent and user = null, token = null, isLoggedIn = false, navigates to
\* /login and issues no network request.
C8_LogoutClearsAndNavigates ==
  [][lastCall'.op = "logout" =>
       /\ AllSessionKeysAbsent(ls')
       /\ MemoryCleared(user', token', isLoggedIn')
       /\ location' = "/login"
       /\ fetches' = fetches
       /\ promise' = promise]_vars

\* C8 witness: logout has just run after the only login call succeeded.
C8_Witness ==
  /\ lastCall.op = "logout"
  /\ promise[1] = "fulfilled"
  /\ promise[2] = "idle"
  /\ fetches = 1
  /\ location = "/login"
  /\ AllSessionKeysAbsent(ls)
  /\ MemoryCleared(user, token, isLoggedIn)

LoginOutstanding == \E i \in LoginIds : promise[i] = "pending"

\* C9: isLoading is true from creation until initialize completes, which
\* happens exactly once, and throughout every login call; once initialize
\* has completed and no login call is outstanding, isLoading is false.
C9_LoadingFlag ==
  /\ [](isLoading <=> (~initialized \/ LoginOutstanding))
  /\ [][lastCall'.op = "initialize" => (~initialized /\ initialized')]_vars
  /\ [][initialized => initialized']_vars

\* C9 witness: a second login call is outstanding after the first one has
\* settled, and isLoading is true.
C9_Witness ==
  /\ initialized
  /\ promise[1] = "rejected"
  /\ promise[2] = "pending"
  /\ isLoading

\* C10: what getAuthHeader() returns is determined by the token in
\* persistent storage at the moment of the call -- the Bearer header of that
\* token if there is one, the empty set otherwise -- and the call changes
\* neither persistent storage nor the in-memory session.
C10_HeaderReadsStorageOnly ==
  [][lastCall'.op = "getAuthHeader" =>
       /\ Truthy(ls.token) => lastCall'.returned = BearerHeader(ls.token)
       /\ ~Truthy(ls.token) => lastCall'.returned = {}
       /\ UNCHANGED <<ls, user, token, isLoggedIn, isLoading, initialized,
                      promise, fetches, location, error>>]_vars

\* C10 witness: getAuthHeader() has returned the Bearer header of the
\* persisted token while the in-memory token is null.
C10_Witness ==
  /\ lastCall.op = "getAuthHeader"
  /\ lastCall.returned = BearerHeader("t1")
  /\ ls.token = "t1"
  /\ token = Absent

\* C11: ProtectedRoute renders its child route only when isLoading is false
\* and isLoggedIn is true; while isLoading is true it neither renders the
\* child nor redirects; when isLoading is false and isLoggedIn is false it
\* redirects to /login (remembering the route it was asked for).
C11_Asked(op, route) ==
  \/ op = "openRoute" /\ lastCall'.route = route
  \/ op = "initialize" /\ location = route

C11_ProtectedRouteGuards ==
  /\ [](location \in ProtectedRoutes => (isLoading \/ isLoggedIn))
  /\ [][\A route \in ProtectedRoutes :
          C11_Asked(lastCall'.op, route) =>
            /\ isLoading' => location' = route
            /\ (~isLoading' /\ isLoggedIn') => location' = route
            /\ (~isLoading' /\ ~isLoggedIn') =>
                 location' = "/login" /\ from' = route]_vars

C11_Witness ==
  /\ location = "/login"
  /\ from \in ProtectedRoutes
  /\ ~isLoading
  /\ ~isLoggedIn

\* C12: in one orchestration instance (the OCR + solve page, the tutor), under
\* every interleaving of the user's actions with request completions, at most
\* one extraction request and at most one processing request is in flight.
C12_AtMostOne(p) ==
  /\ Pending(p.requests, "/upload-image") <= 1
  /\ Pending(p.requests, "/solve-text") <= 1

C12_OneRequestInFlight == C12_AtMostOne(index) /\ C12_AtMostOne(tutor)

\* C13: on every problem-input screen (OCR + solve page, tutor, chat) a
\* processing request (/solve-text, /api/chat) is never issued as the automatic
\* continuation of an extraction: the handler run that consumes the response
\* of /upload-image only places the text in the editable input.
C13_Processing(p) ==
  Pending(p.requests, "/solve-text") + Pending(p.requests, "/api/chat")

C13_ExtractionSettles(op) ==
  op \in {"extractSettled", "TutorExtractSettled", "imageUploadSettled"}

C13_NoAutomaticProcessing ==
  [][C13_ExtractionSettles(lastCall'.op) =>
       /\ C13_Processing(index)' <= C13_Processing(index)
       /\ C13_Processing(tutor)' <= C13_Processing(tutor)
       /\ C13_Processing(chat)' <= C13_Processing(chat)]_vars

\* C14: on every screen that can send a file to /upload-image, a file whose
\* MIME type is outside {image/jpeg, image/png, application/pdf} or whose size
\* exceeds 10 MB is rejected before any request, with a reason that tells a
\* wrong type from a too large file; it never becomes the selected file and no
\* extraction request is sent for it.
C14_WrongType(f) ==
  f.type \notin {"image/jpeg", "image/png", "application/pdf"}

C14_TooLarge(f) == f.size > 10 * 1024 * 1024

C14_Rejected(f) == f # Null /\ (C14_WrongType(f) \/ C14_TooLarge(f))

C14_FileEvents ==
  {"onFileChange", "onDrop", "TutorOnFileChange", "TutorOnDrop",
   "imageChange"}

C14_InvalidFileRejected ==
  /\ [](/\ ~C14_Rejected(index.selectedFile)
        /\ ~C14_Rejected(tutor.selectedFile)
        /\ ~C14_Rejected(chat.selectedImageFile)
        /\ \A q \in InFlight(index.requests, "/upload-image") :
             ~C14_Rejected(q.body)
        /\ \A q \in InFlight(tutor.requests, "/upload-image") :
             ~C14_Rejected(q.body)
        /\ \A q \in InFlight(chat.requests, "/upload-image") :
             ~C14_Rejected(q.body.file))
  /\ [][(lastCall'.op \in C14_FileEvents /\ C14_Rejected(lastCall'.arg)) =>
          lastCall'.toast = IF C14_WrongType(lastCall'.arg)
                              THEN "Invalid file type"
                              ELSE "File too large"]_vars

\* C15: a processing request is sent only with a problem text that is not
\* empty after trimming: while the input is empty or whitespace no step sends
\* a /solve-text request, and every /solve-text request in flight carries a
\* text with a non-whitespace character.
C15_Blank(s) == s = "" \/ s = " "

C15_Solves(p) == InFlight(p.requests, "/solve-text")

C15_SolveNeedsText ==
  /\ [](\A q \in C15_Solves(index) \cup C15_Solves(tutor) :
          ~C15_Blank(q.body.question_text))
  /\ [][/\ C15_Blank(index.ocrText) =>
             Pending(index.requests, "/solve-text")' <=
               Pending(index.requests, "/solve-text")
        /\ C15_Blank(tutor.problemInput) =>
             Pending(tutor.requests, "/solve-text")' <=
               Pending(tutor.requests, "/solve-text")]_vars

C15_Witness ==
  \/ /\ lastCall.op = "solveQuestion"
     /\ index.ocrText = " x "
     /\ \E q \in C15_Solves(index) : q.body.question_text = "x"
  \/ /\ lastCall.op = "handleGenerateSolution"
     /\ tutor.problemInput = " x "
     /\ \E q \in C15_Solves(tutor) : q.body.question_text = " x "

\* C16: after a completed orchestration (a result, a non-empty input and a
\* preview are held), reset / try-another leaves, in a single step, an empty
\* input, no preview, no result and no error.
C16_Completed(p) ==
  p.solveResult # Null /\ p.ocrText # "" /\ p.imagePreviewUrl # Null

C16_ResetClearsAll ==
  [][(lastCall'.op = "tryAnother" /\ C16_Completed(index)) =>
       /\ index'.ocrText = ""
       /\ index'.imagePreviewUrl = Null
       /\ index'.solveResult = Null
       /\ index'.apiError = Null]_vars

C16_Witness ==
  /\ lastCall.op = "tryAnother"
  /\ C16_Completed(lastCall.arg)
  /\ index.ocrText = ""
  /\ index.solveResult = Null

\* C17: for every failed extraction, processing or step-explanation request
\* whose body is readable, the error message shown is the server's detail if
\* present, otherwise the server's error, otherwise a generic message that
\* carries the HTTP status.
C17_Failed(r) == r.kind = "body" /\ ~ResponseOk(r)

C17_Expected(r) ==
  IF r.detail # Absent THEN r.detail
  ELSE IF r.error # Absent THEN r.error
  ELSE HttpErrorStatus(r.status)

C17_Shown(op) ==
  CASE op = "extractSettled" -> index'.apiError
    [] op = "solveSettled" -> index'.apiError
    [] op = "TutorExtractSettled" -> tutor'.ocrApiError
    [] op = "generateSettled" -> tutor'.solutionError
    [] op = "explainSettled" ->
         Prefixed("", tutor'.stepExplanations[lastCall'.arg].error)

C17_ErrorMessagePreference ==
  [][(/\ lastCall'.op \in {"extractSettled", "solveSettled",
                           "TutorExtractSettled", "generateSettled",
                           "explainSettled"}
      /\ C17_Failed(lastCall'.resp)) =>
       /\ C17_Shown(lastCall'.op) # Null
       /\ C17_Shown(lastCall'.op).message = C17_Expected(lastCall'.resp)]_vars

\* C18: when a processing call settles, the page is Completed (the result
\* is the received response, the error is null) exactly when the status was ok
\* and the body has no error field; on a non-ok status, an error field in an
\* ok response or a network exception it is Failed: the result is null and an
\* error message is set.
C18_Ok(r) == r.kind = "body" /\ ResponseOk(r) /\ r.error = Absent

C18_NotOk(r) ==
  \/ r.kind = "network"
  \/ r.kind = "badjson" /\ ~ResponseOk(r)
  \/ r.kind = "body" /\ (~ResponseOk(r) \/ r.error # Absent)

C18_Outcome(r, result, err) ==
  /\ C18_Ok(r) => (result = r /\ err = Null)
  /\ C18_NotOk(r) => (result = Null /\ err # Null)

C18_ProcessingOutcome ==
  [][/\ lastCall'.op = "solveSettled" =>
          C18_Outcome(lastCall'.resp, index'.solveResult, index'.apiError)
     /\ lastCall'.op = "generateSettled" =>
          C18_Outcome(lastCall'.resp, tutor'.solution,
                      tutor'.solutionError)]_vars

\* C19: the solution result is cleared whenever the input changes
\* materially: after the user selects a new file, clears the file selection or
\* clears the problem text, the held result is null.
C19_FileSelected(op, p) ==
  /\ lastCall'.op = op
  /\ lastCall'.arg # Null
  /\ p.selectedFile = lastCall'.arg

C19_ResultClearedOnInputChange ==
  [][/\ (\/ C19_FileSelected("TutorOnFileChange", tutor')
          \/ C19_FileSelected("TutorOnDrop", tutor')
          \/ lastCall'.op = "ClearSelection"
          \/ (lastCall'.op = "problemChange" /\ tutor'.problemInput = ""))
         => tutor'.solution = Null
     /\ (\/ C19_FileSelected("onFileChange", index')
          \/ C19_FileSelected("onDrop", index')
          \/ (lastCall'.op = "textChange" /\ index'.ocrText = ""))
         => index'.solveResult = Null]_vars

\* C20: the step-explanation cache is cleared wholesale when a new solution
\* result is set: while a result is held, the cache holds no entry that
\* originated from a follow-up request issued against an earlier result.  An
\* explanation explains the solution its request carried, so every
\* explanation in the cache must explain the result that is held.
C20_Stale(e, solution) ==
  /\ e # NoEntry
  /\ e.explanation # Null
  /\ e.explanation.explains # solution.answer

C20_NoStaleExplanation ==
  tutor.solution # Null =>
    \A n \in StepNumbers : ~C20_Stale(tutor.stepExplanations[n], tutor.solution)

\* C21: step explanations are tracked independently per step number: issuing
\* or completing an explanation request for step j never changes the cache
\* record of another step i, and a completed request leaves its own response
\* text in the record of its own step, in whatever order two requests for
\* different steps complete.
C21_ExplainOps == {"handleExplainStep", "explainSettled"}

C21_Explained(r) ==
  r.kind = "body" /\ ResponseOk(r) /\ r.error = Absent

C21_StepsIndependent ==
  /\ [](\A n \in StepNumbers :
          LET e == tutor.stepExplanations[n]
          IN (e # NoEntry /\ e.explanation # Null) => e.explanation.step = n)
  /\ [][lastCall'.op \in C21_ExplainOps =>
          /\ \A i \in StepNumbers \ {lastCall'.arg} :
               tutor'.stepExplanations[i] = tutor.stepExplanations[i]
          /\ (lastCall'.op = "explainSettled" /\ C21_Explained(lastCall'.resp))
               => tutor'.stepExplanations[lastCall'.arg].explanation =
                    lastCall'.resp.explanation]_vars

\* The request of step 1 has completed with its text while the request of
\* step 2, in flight together with it, is still outstanding.
C21_Witness ==
  /\ lastCall.op = "explainSettled"
  /\ lastCall.arg = 1
  /\ C21_Explained(lastCall.resp)
  /\ tutor.stepExplanations[1].explanation = lastCall.resp.explanation
  /\ tutor.stepExplanations[2] # NoEntry
  /\ tutor.stepExplanations[2].isLoading
  /\ Pending(tutor.requests, "/explain-step") = 1

\* C22: at any time at most one explanation request per step number is in
\* flight, under every interleaving of why/how clicks, new solve requests and
\* response arrivals.
C22_Explaining(n) ==
  LET qs == {q \in InFlight(tutor.requests, "/explain-step") :
               q.body.step_number_to_explain = n}
  IN BagCardinality([q \in qs |-> tutor.requests[q]])

C22_OneExplanationPerStep == \A n \in StepNumbers : C22_Explaining(n) <= 1

\* C23: within one orchestration instance (the OCR + solve page, the tutor)
\* an extraction request and a processing request are never in flight at the
\* same time.
C23_Both(p) ==
  /\ Pending(p.requests, "/upload-image") > 0
  /\ Pending(p.requests, "/solve-text") > 0

C23_NoExtractionWithProcessing == ~C23_Both(index) /\ ~C23_Both(tutor)

\* C24: on the OCR + solve page no stale result is displayed against new
\* input: whenever the result is non-null, it is the response to a processing
\* request whose question equals the current trimmed input text.
C24_NoStaleResult ==
  index.solveResult # Null =>
    index.solveResult.original_problem = trim(index.ocrText)

\* C25: when every issued request eventually resolves or rejects, every
\* extraction or processing call that has started eventually ends: its loading
\* flag returns to false (no loading flag stays set for ever), and the step
\* that consumes the response leaves the flag false with either the outcome
\* (extracted text, result) or an error message.
C25_Settled(op, loading, done, err) ==
  lastCall'.op = op =>
    /\ ~loading
    /\ (lastCall'.toast = done \/ err # Null)

C25_CallsTerminate ==
  /\ []<>(~index.loadingOcr)
  /\ []<>(~index.loadingSolve)
  /\ []<>(~tutor.loadingOcr)
  /\ []<>(~tutor.isLoadingSolution)
  /\ [][/\ C25_Settled("extractSettled", index'.loadingOcr,
                        "Text Extracted", index'.apiError)
        /\ C25_Settled("solveSettled", index'.loadingSolve,
                        "Solution Generated", index'.apiError)
        /\ C25_Settled("TutorExtractSettled", tutor'.loadingOcr,
                        "Text Extracted", tutor'.ocrApiError)
        /\ C25_Settled("generateSettled", tutor'.isLoadingSolution,
                        "Solution Generated", tutor'.solutionError)]_vars

\* A processing call has ended in failure and an extraction call in success.
C25_Witness ==
  \/ /\ lastCall.op = "solveSettled"
     /\ lastCall.toast = "Solving Failed"
     /\ ~index.loadingSolve
     /\ index.apiError # Null
  \/ /\ lastCall.op = "TutorExtractSettled"
     /\ lastCall.toast = "Text Extracted"
     /\ ~tutor.loadingOcr

\* C26: on the OCR + solve page the image preview always belongs to the
\* selected file: imagePreviewUrl is non-null only while selectedFile is
\* non-null, and it is the preview of that file.
C26_PreviewOfSelectedFile ==
  index.imagePreviewUrl # Null =>
    /\ index.selectedFile # Null
    /\ index.imagePreviewUrl = DataUrl(index.selectedFile)

\* C27: in computer-science practice, a feedback the server gave that is
\* shown with a question is the feedback of a submission made for that
\* question.
C27_FeedbackOfDisplayedQuestion ==
  (/\ tutor.currentCSQuestion # Null
   /\ tutor.csSubmissionFeedback # Null
   /\ tutor.csSubmissionFeedback.ai_feedback = Absent)
  => tutor.csSubmissionFeedback.explanation.of = tutor.currentCSQuestion.id

\* C30: the camera stream is never held while the camera is shown as
\* inactive: whenever streamRef holds a MediaStream, isCameraActive is true.
C30_StreamOnlyWhileActive ==
  tutor.streamRef # Null => tutor.isCameraActive

\* C29: a user sent to the login screen while trying to reach a protected
\* route, by ProtectedRoute or by a button of the Home page, is navigated by
\* a successful login to that route: the login screen's redirect target is
\* the route asked for, it stays so while the login screen is shown, and a
\* login that succeeds leaves the user at the redirect target.
C29_SentToLogin(op, route) ==
  /\ location' = "/login"
  /\ \/ op \in {"openRoute", "handleNavigateToProtected"}
        /\ lastCall'.route = route
     \/ op = "initialize" /\ location = route

C29_RedirectsToRequestedRoute ==
  [][/\ \A route \in ProtectedRoutes :
          C29_SentToLogin(lastCall'.op, route) =>
            RedirectTarget(from') = route
     /\ (/\ location = "/login"
         /\ location' = "/login"
         /\ lastCall'.op # "openRoute")
        => from' = from
     /\ (/\ lastCall'.op = "loginSettled"
         /\ lastCall'.thrown = Absent
         /\ location = "/login")
        => location' = RedirectTarget(from)]_vars

\* C28: in the chat screen every send that appends a user message is
\* followed by exactly one AI message for it (the answer or an error
\* message), also when the send is made while the preview of the selected
\* image is still being read: the messages alternate between the user and
\* the AI, and a user message that is not answered yet has its one request in
\* flight, whose continuation appends the AI message.
C28_EverySendAnswered ==
  LET n == Len(chat.messages)
  IN /\ \A i \in 1..n :
          chat.messages[i].sender = IF i % 2 = 1 THEN "user" ELSE "ai"
     /\ BagCardinality(chat.requests) = n % 2

====
